---- MODULE Spec2Model ----
(***************************************************************************)
(* State-machine model of scripts/daily_deals_groq_cloudinary_blogger.py:  *)
(* the run_once pipeline (load_posted, fetch_feed_entries, select_top,     *)
(* get_blogger_service, fetch_recent_posts, publish_post, save_posted),    *)
(* the two durable files it owns (posted_deals.json, token.pickle) and     *)
(* the pure functions select_top and fetch_feed_entries on their own.      *)
(***************************************************************************)
EXTENDS Naturals, Integers, Sequences, FiniteSets, TLC

\* ---------------------------------------------------------------- bounds
\* Number of distinct links (candidate ids) the feeds can carry.
NumLinks == 2
\* Longest raw feed listing (all feeds concatenated) of one run.
MaxFeed == 2
\* Largest number of KEYWORDS one entry text is allowed to match.
MaxKw == 1
\* Longest candidate list handed to select_top in SpecSelect.
MaxSel == 3
\* Largest distance, in hours, of the host's time zone from UTC.
MaxSkew == 1

\* ------------------------------------------------------ program constants
\* MAX_POSTS_PER_RUN (MAX_POSTS), here configured to two posts per run.
MAX_POSTS == 2
\* score_entry adds 2 per matched keyword and 2 for a "%" character.
KwWeight == 2
PctBonus == 2
\* Similarity threshold 0.86, in hundredths.
SimThreshold == 86
\* FEED_HOURS_BACK, its default of 72 hours.
FEED_HOURS_BACK == 72
\* The clock when fetch_feed_entries runs, in hours since the epoch.
Now == 100
\* cutoff = now - hours_back * 3600, in hours.
Cutoff == Now - FEED_HOURS_BACK

Links == 1..NumLinks

\* A feed entry as far as the pipeline reads it: its link (the dedup id),
\* how many KEYWORDS its title+summary text contains, whether the text
\* contains "%".  The title of an entry is identified with its link.
\* `published` is the timestamp fetch_feed_entries gave it, in hours.
EntryAt(l, k, p, t) == [link |-> l, kw |-> k, pct |-> p, published |-> t]
Entry(l, k, p) == EntryAt(l, k, p, Now)
EntriesOver(ls) == {Entry(l, k, p) : l \in ls, k \in 0..MaxKw, p \in BOOLEAN}

SeqsUpTo(S, n) == UNION {[1..k -> S] : k \in 0..n}

Range(s) == {s[i] : i \in DOMAIN s}

Min(a, b) == IF a <= b THEN a ELSE b

\* Python slice s[:n] for n >= 0.
Take(s, n) == SubSeq(s, 1, Min(n, Len(s)))

\* ------------------------------------------------------ scoring & picking
score_entry(e) == KwWeight * e.kw + (IF e.pct THEN PctBonus ELSE 0)

\* One insertion step of a stable descending sort: x goes behind every
\* element whose key is >= its own.
RECURSIVE InsertDesc(_, _)
InsertDesc(s, x) ==
    IF s = <<>> THEN <<x>>
    ELSE IF score_entry(Head(s)) >= score_entry(x)
         THEN <<Head(s)>> \o InsertDesc(Tail(s), x)
         ELSE <<x>> \o s

RECURSIVE SortedDescFrom(_, _)
SortedDescFrom(acc, rest) ==
    IF rest = <<>> THEN acc
    ELSE SortedDescFrom(InsertDesc(acc, Head(rest)), Tail(rest))

Reverse(s) == [i \in 1..Len(s) |-> s[Len(s) + 1 - i]]

\* A descending sort that does not keep ties in input order: the stable
\* descending sort of the reversed list.
sorted_desc_ties_reversed(es) == SortedDescFrom(<<>>, Reverse(es))

\* sorted(..., key=score, reverse=True): stable, ties keep input order.
sorted_desc(es) == SortedDescFrom(<<>>, es)

\* select_top without the fallback of lines 358-359.
select_top_no_fallback(es, n) ==
    Take(SelectSeq(sorted_desc(es), LAMBDA e : score_entry(e) > 0), n)

select_top(es, n) ==
    LET scored == sorted_desc(es)
        filtered == SelectSeq(scored, LAMBDA e : score_entry(e) > 0)
    IN  IF filtered = <<>> THEN Take(Take(scored, n), n) ELSE Take(filtered, n)

\* ------------------------------------------------- posted_deals.json store
\* A record of the store as far as it is read here: "url" (its url field
\* holds the post's url), "null" (its url field is None); "none" marks a
\* link that is no key of the dict.
NoPosts == [l \in Links |-> "none"]
Keys(p) == {l \in Links : p[l] # "none"}

\* The file POSTED_FILE: absent, a complete JSON document, or a truncated /
\* partly written document (what open(..., "w") leaves until dump finishes).
FileAbsent == [kind |-> "absent", data |-> NoPosts]
FilePartial == [kind |-> "partial", data |-> NoPosts]
FileJson(p) == [kind |-> "json", data |-> p]

\* load_posted: {} when the file is missing or does not parse.
load_posted(f) == IF f.kind = "json" THEN f.data ELSE NoPosts

\* ------------------------------------------------------ feed parsing
\* An item of a parsed feed: link, keywords and "%" of its text, whether
\* it has published_parsed or updated_parsed, and that UTC time in hours.
Item(l, k, p, d, t) == [link |-> l, kw |-> k, pct |-> p, dated |-> d, ts |-> t]

\* Lines 160-166.  time.mktime reads the UTC struct_time as local time, so
\* on a host `off` hours east of UTC the result is `off` hours early; an
\* item without a time gets the clock.
published_ts(it, off) == IF it.dated THEN it.ts - off ELSE Now

FirstOccurrence(s, i) == \A j \in 1..(i - 1) : s[j].link # s[i].link
LastWithLink(s, l) ==
    s[CHOOSE j \in DOMAIN s :
         s[j].link = l /\ \A k \in (j + 1)..Len(s) : s[k].link # l]

\* No deduplication: every occurrence is kept.
KeepAllFrom(s, i) == SubSeq(s, i, Len(s))

\* {ent["link"]: ent for ent in entries}.values(): one entry per link, at
\* the place of the link's first occurrence, holding its last occurrence.
RECURSIVE DedupeFrom(_, _)
DedupeFrom(s, i) ==
    IF i > Len(s) THEN <<>>
    ELSE (IF FirstOccurrence(s, i) THEN <<LastWithLink(s, s[i].link)>> ELSE <<>>)
         \o DedupeFrom(s, i + 1)

\* Lines 159-182: the items that are not older than the cutoff and, if
\* `seen_links` is given, whose link is not in it, as entry dicts.
Collected(raw, seen_links, off) ==
    LET kept == SelectSeq(raw, LAMBDA it : /\ published_ts(it, off) >= Cutoff
                                           /\ it.link \notin seen_links)
    IN  [k \in DOMAIN kept |->
           EntryAt(kept[k].link, kept[k].kw, kept[k].pct,
                   published_ts(kept[k], off))]

\* fetch_feed_entries without the seen_links test.
fetch_feed_entries_unfiltered(raw, seen_links, off) ==
    DedupeFrom(Collected(raw, {}, off), 1)

\* fetch_feed_entries over the items `raw` of the feeds (all feeds, in
\* order), on a host `off` hours east of UTC.
fetch_feed_entries(raw, seen_links, off) ==
    DedupeFrom(Collected(raw, seen_links, off), 1)

LinksOf(es) == [k \in 1..Len(es) |-> es[k].link]

\* ------------------------------------------------------ Blogger OAuth
\* The credential pickled in TOKEN_FILE: no file; valid; expired with a
\* refresh token; expired without one; not valid yet not expired.
CredStates == {"absent", "valid", "expired_rt", "expired_nort", "invalid"}

\* get_blogger_service that ignores the pickled credential: it always runs
\* the authorization flow and writes TOKEN_FILE.
get_blogger_service_always_flow(tf, refreshOk, flowOk) ==
    IF flowOk
    THEN [raised |-> FALSE, creds |-> "valid", token |-> "valid",
          log |-> <<"local_server_ok", "write">>]
    ELSE [raised |-> TRUE, creds |-> "absent", token |-> tf,
          log |-> <<"local_server_fail">>]

\* get_blogger_service on persisted credential tf, with the environment's
\* answers: does creds.refresh succeed, does run_local_server succeed.
\* raised: the call propagates an exception; creds: what the service is
\* built with; token: TOKEN_FILE afterwards; log: the calls made, in order.
get_blogger_service(tf, refreshOk, flowOk) ==
    IF tf = "valid"
    THEN [raised |-> FALSE, creds |-> "valid", token |-> tf, log |-> <<>>]
    ELSE LET tryRefresh == tf = "expired_rt"
             creds1 == IF tryRefresh
                       THEN (IF refreshOk THEN "valid" ELSE "absent")
                       ELSE tf
             log1 == IF tryRefresh
                     THEN <<IF refreshOk THEN "refresh_ok" ELSE "refresh_fail">>
                     ELSE <<>>
         IN  IF creds1 = "absent"
             THEN IF flowOk
                  THEN [raised |-> FALSE, creds |-> "valid", token |-> "valid",
                        log |-> log1 \o <<"local_server_ok", "write">>]
                  ELSE [raised |-> TRUE, creds |-> "absent", token |-> tf,
                        log |-> log1 \o <<"local_server_fail">>]
             ELSE [raised |-> FALSE, creds |-> creds1, token |-> creds1,
                   log |-> log1 \o <<"write">>]

\* ------------------------------------------------------ similarity
\* difflib ratio of two titles, in hundredths: equal titles 100, titles of
\* neighbouring links differ in a few characters, the others are unrelated.
RatioPct(t, r) ==
    IF t = r THEN 100 ELSE IF t = r + 1 \/ r = t + 1 THEN 86 ELSE 50

\* The test of line 404 with all(...) in place of any(...).
TooSimilarToAll(t, recent) == \A r \in recent : RatioPct(t, r) > SimThreshold

TooSimilar(t, recent) == \E r \in recent : RatioPct(t, r) > SimThreshold

\* ------------------------------------------------------ publish
\* What service.posts().insert(...).execute() can do: return a post with a
\* url, return a body without url, be rejected for the credential (401),
\* fail otherwise.  A service built on a credential that is not valid is
\* rejected.
Success == {"ok", "ok_nourl"}
Failure == {"auth", "error"}
PublishOutcomes(creds) == IF creds = "valid" THEN Success \cup Failure ELSE {"auth"}

\* The record written for a returned result: url = res.get("url").
record_of(out) == IF out = "ok" THEN "url" ELSE "null"

\* posted after the try block, with the record set also when publish raised.
posted_after_publish_always(p, link, out) == [p EXCEPT ![link] = record_of(out)]

\* posted after the try block of run_once: the record is set only when
\* publish_post returned.
posted_after_publish(p, link, out) ==
    IF out \in Success THEN [p EXCEPT ![link] = record_of(out)] ELSE p

\* ------------------------------------------------------ configuration
\* The settings read from the environment at import (lines 36-44) that the
\* run needs: GROQ_API_KEY, the three CLOUDINARY_* values, BLOG_ID, and the
\* OAuth client file CREDENTIALS_FILE.
ConfigItems == {"groq", "cloudinary", "blog_id", "client_file"}

\* ------------------------------------------------------ feeds
\* A feed that fails to parse makes the whole fetch come back empty.
parsed_entries_or_nothing(feeds) ==
    IF \E k \in DOMAIN feeds : feeds[k].fails THEN <<>>
    ELSE feeds[1].entries \o feeds[2].entries

\* The entries of the feeds that parsed: a feed whose feedparser.parse
\* raises is reported and skipped (lines 156, 183-184).
RECURSIVE parsed_entries(_)
parsed_entries(feeds) ==
    IF feeds = <<>> THEN <<>>
    ELSE (IF Head(feeds).fails THEN <<>> ELSE Head(feeds).entries)
         \o parsed_entries(Tail(feeds))

\* The items a feed can carry, up to their score: a "%" in the text adds
\* to the score what one keyword adds.
\* They are fresh: an item older than the cutoff is as good as absent.
FeedItems == {Item(l, k, FALSE, TRUE, Now) : l \in Links, k \in 0..MaxKw}

\* The feed listings of one run: two feeds sharing at most MaxFeed
\* entries; a feed that fails to parse yields no entries.
FeedListings ==
    {fs \in {<<[fails |-> fa, entries |-> SubSeq(rc[1], 1, rc[2])],
               [fails |-> fb, entries |-> SubSeq(rc[1], rc[2] + 1, Len(rc[1]))]>> :
               rc \in {x \in SeqsUpTo(FeedItems, MaxFeed) \X (0..MaxFeed) :
                         x[2] <= Len(x[1])},
               fa \in BOOLEAN, fb \in BOOLEAN} :
       \A k \in DOMAIN fs : fs[k].fails => fs[k].entries = <<>>}

\* ------------------------------------------------------ enrichment
\* Lines 409-416: no image in the entry; the Cloudinary url; or, when the
\* upload fails, the entry's own image url.
hosted_image(hasImg, uploadOk) ==
    IF ~hasImg THEN "none" ELSE IF uploadOk THEN "hosted" ELSE "original"

\* Lines 437-441: the generated markup, or the summary in a <p>.
body_text(groqOk) == IF groqOk THEN "generated" ELSE "summary"

\* An except clause that gives the loop up.
abort_after_exception(k, n) == n + 1

\* Lines 498-501: the except clause prints, the loop sleeps and goes on
\* with the next candidate.
next_after_exception(k, n) == k + 1

\* ------------------------------------------------------ state
VARIABLES
    file,           \* posted_deals.json on disk
    tokenFile,      \* token.pickle on disk, a member of CredStates
    staleGrant,     \* history: the last refresh of the persisted credential
                    \*   failed and TOKEN_FILE was not written since
    missing,        \* the ConfigItems that are not set
    pc,             \* where the process is: "idle" (not running), "auth",
                    \*   "recent", "loop", "publish", "save_open",
                    \*   "save_dump", "done" (the process has ended)
    posted,         \* run_once's dict `posted`
    to_post,        \* links of run_once's list `to_post`, in order
    i,              \* index in to_post of the `for ent in to_post` loop
    service,        \* credential the Blogger service was built with
    recent_titles,  \* titles returned by fetch_recent_posts
    hosted_img,     \* run_once's hosted_img of the candidate in hand
    body_html,      \* run_once's body_html of the candidate in hand
    file0,          \* history: posted_deals.json when the run started
    fetched,        \* history: links carried by the feeds that parsed
    dups,           \* history: the feeds carried some link more than once
    faults,         \* history: collaborators that failed: "feed", "recent"
                    \*   in this run, "image", "text" for the candidate in hand
    network,        \* history: the run has made a network call
    pubLog,         \* history: per link, outcomes of this run's publish calls
    preSave,        \* history: posted_deals.json when save_posted was entered
    exit,           \* history: how the run ended
    killedAt,       \* history: pc at which the process was killed
    authLog,        \* history: calls made by this run's get_blogger_service
    tz,             \* hours the host's time zone is east of UTC
    cand, cand_n,   \* SpecSelect: arguments of select_top
                    \*   SpecFetch: cand is the items of the feeds
    cand_seen,      \* SpecFetch: argument seen_links
    picked          \* SpecSelect, SpecFetch: the function's result

durable == <<file, tokenFile, staleGrant, missing, tz>>
selVars == <<cand, cand_n, cand_seen, picked>>
runVars == <<posted, to_post, i, service, recent_titles, hosted_img, body_html>>
feedHist == <<file0, fetched, dups, network>>
histVars == <<feedHist, faults, pubLog, preSave, exit, killedAt, authLog>>
vars == <<durable, pc, runVars, histVars, selVars>>

NoLog == [l \in Links |-> <<>>]
Running == {"auth", "recent", "loop", "publish", "save_open", "save_dump"}

\* A process that is not running: no memory, no history of a run.
NoRun ==
    /\ posted = NoPosts /\ to_post = <<>> /\ i = 0
    /\ service = "absent" /\ recent_titles = {}
    /\ hosted_img = "none" /\ body_html = "none"
    /\ fetched = {} /\ dups = FALSE /\ faults = {}
    /\ network = FALSE /\ pubLog = NoLog
    /\ exit = "none" /\ killedAt = "none" /\ authLog = <<>>

\* A deployment before its first run: no posted_deals.json; token.pickle
\* is whatever the operator left there; `config` are the settings missing.
InitWith(config) ==
    /\ file = FileAbsent
    /\ tokenFile \in CredStates
    /\ staleGrant = FALSE
    /\ missing \in config
    /\ tz = 0
    /\ pc = "idle"
    /\ NoRun
    /\ file0 = file /\ preSave = file
    /\ cand = <<>> /\ cand_n = 0 /\ cand_seen = {} /\ picked = <<>>

\* Every setting is present.
Init == InitWith({{}})

\* ------------------------------------------------------ run_once
\* Lines 373-389: load the store, fetch and filter the feeds, select.
StartRun ==
    /\ pc = "idle"
    /\ \E feeds \in FeedListings :
         /\ LET p == load_posted(file)
                entries == fetch_feed_entries(parsed_entries(feeds), Keys(p), tz)
                top == select_top(entries, MAX_POSTS)
                carried == feeds[1].entries \o feeds[2].entries
            IN  /\ posted' = p
                /\ fetched' = Range(LinksOf(carried))
                /\ dups' = (Len(carried) > Cardinality(Range(LinksOf(carried))))
                /\ faults' = IF \E k \in DOMAIN feeds : feeds[k].fails
                             THEN {"feed"} ELSE {}
                /\ IF entries = <<>>
                   THEN pc' = "done" /\ exit' = "no_entries" /\ to_post' = <<>>
                   ELSE IF top = <<>>
                   THEN pc' = "done" /\ exit' = "no_selection" /\ to_post' = <<>>
                   ELSE pc' = "auth" /\ exit' = "none" /\ to_post' = LinksOf(top)
    /\ file0' = file
    /\ network' = TRUE
    /\ UNCHANGED <<durable, i, service, recent_titles, hosted_img, body_html,
                   pubLog, preSave, killedAt, authLog, selVars>>

\* Line 392: service = get_blogger_service().  An exception of the
\* authorization flow is not caught in run_once: the process ends.
\* Without the client file, from_client_secrets_file raises.
GetService ==
    /\ pc = "auth"
    /\ \E refreshOk \in BOOLEAN, flowOk \in BOOLEAN :
         /\ flowOk => "client_file" \notin missing
         /\ LET r == get_blogger_service(tokenFile, refreshOk, flowOk)
            IN  /\ tokenFile' = r.token
                /\ authLog' = r.log
                /\ service' = r.creds
                /\ staleGrant' = IF "write" \in Range(r.log) THEN FALSE
                                 ELSE IF "refresh_fail" \in Range(r.log) THEN TRUE
                                 ELSE staleGrant
                /\ IF r.raised
                   THEN pc' = "done" /\ exit' = "auth_error"
                   ELSE pc' = "recent" /\ exit' = exit
    /\ UNCHANGED <<file, missing, tz, posted, to_post, i, recent_titles,
                   hosted_img, body_html, feedHist, faults, pubLog, preSave,
                   killedAt, selVars>>

\* Lines 393-394: fetch_recent_posts returns the listing, or [] on error
\* (always so without BLOG_ID).
FetchRecent ==
    /\ pc = "recent"
    /\ \/ /\ "blog_id" \notin missing
          /\ \E ts \in SUBSET Links : recent_titles' = ts
          /\ faults' = faults
       \/ /\ recent_titles' = {}
          /\ faults' = faults \cup {"recent"}
    /\ pc' = "loop"
    /\ i' = 1
    /\ UNCHANGED <<durable, posted, to_post, service, hosted_img, body_html,
                   feedHist, pubLog, preSave, exit, killedAt, authLog, selVars>>

\* Line 396: the loop is exhausted, run_once returns.
LoopEnd ==
    /\ pc = "loop"
    /\ i > Len(to_post)
    /\ pc' = "done"
    /\ exit' = "completed"
    /\ UNCHANGED <<durable, runVars, feedHist, faults, pubLog, preSave,
                   killedAt, authLog, selVars>>

\* Lines 403-406: the title is too similar to a recent one: continue.
SkipSimilar ==
    /\ pc = "loop"
    /\ i <= Len(to_post)
    /\ TooSimilar(to_post[i], recent_titles)
    /\ i' = i + 1
    /\ UNCHANGED <<durable, pc, posted, to_post, service, recent_titles,
                   hosted_img, body_html, histVars, selVars>>

\* Lines 408-482: image hosting and text generation, each with its local
\* fallback; the facts, tags and rendering change nothing kept here.
\* Without Cloudinary settings init_cloudinary raises inside the upload's
\* try; without GROQ_API_KEY groq_generate raises inside line 437's try.
Prepare ==
    /\ pc = "loop"
    /\ i <= Len(to_post)
    /\ ~TooSimilar(to_post[i], recent_titles)
    /\ \E hasImg \in BOOLEAN, uploadOk \in BOOLEAN, groqOk \in BOOLEAN :
         /\ uploadOk => (hasImg /\ "cloudinary" \notin missing)
         /\ groqOk => "groq" \notin missing
         /\ hosted_img' = hosted_image(hasImg, uploadOk)
         /\ body_html' = body_text(groqOk)
         /\ faults' = (faults \ {"image", "text"})
                        \cup (IF hasImg /\ ~uploadOk THEN {"image"} ELSE {})
                        \cup (IF groqOk THEN {} ELSE {"text"})
    /\ pc' = "publish"
    /\ UNCHANGED <<durable, posted, to_post, i, service, recent_titles,
                   feedHist, pubLog, preSave, exit, killedAt, authLog, selVars>>

\* Lines 486-496 and 498-501: publish_post, then posted[link] = {...};
\* any exception is caught, printed, and the loop goes on.  Without
\* BLOG_ID the insert call fails.
Publish ==
    /\ pc = "publish"
    /\ \E out \in (IF "blog_id" \in missing THEN {"error"}
                   ELSE PublishOutcomes(service)) :
         /\ pubLog' = [pubLog EXCEPT ![to_post[i]] = Append(@, out)]
         /\ posted' = posted_after_publish(posted, to_post[i], out)
         /\ IF out \in Success
            THEN pc' = "save_open" /\ i' = i /\ preSave' = file
            ELSE /\ pc' = "loop" /\ preSave' = preSave
                 /\ i' = next_after_exception(i, Len(to_post))
    /\ hosted_img' = "none" /\ body_html' = "none"
    /\ faults' = faults \ {"image", "text"}
    /\ UNCHANGED <<durable, to_post, service, recent_titles, feedHist,
                   exit, killedAt, authLog, selVars>>

\* Line 148: open(POSTED_FILE, "w") truncates the file, or raises OSError
\* (caught at line 498).
SaveOpen ==
    /\ pc = "save_open"
    /\ \/ file' = FilePartial /\ pc' = "save_dump" /\ i' = i
       \/ file' = file /\ pc' = "loop"
            /\ i' = next_after_exception(i, Len(to_post))
    /\ UNCHANGED <<tokenFile, staleGrant, missing, tz, posted, to_post,
                   service, recent_titles, hosted_img, body_html, histVars,
                   selVars>>

\* Line 149: json.dump writes the document and the file is closed, or the
\* write raises (caught at line 498) and leaves what was written so far.
SaveDump ==
    /\ pc = "save_dump"
    /\ \/ file' = FileJson(posted) /\ i' = i + 1
       \/ file' = file /\ i' = next_after_exception(i, Len(to_post))
    /\ pc' = "loop"
    /\ UNCHANGED <<tokenFile, staleGrant, missing, tz, posted, to_post,
                   service, recent_titles, hosted_img, body_html, histVars,
                   selVars>>

\* The process is killed from outside while it runs.
Kill ==
    /\ pc \in Running
    /\ pc' = "done"
    /\ exit' = "killed"
    /\ killedAt' = pc
    /\ UNCHANGED <<durable, runVars, feedHist, faults, pubLog, preSave,
                   authLog, selVars>>

\* The process is gone: only the two files remain.
Exit ==
    /\ pc = "done"
    /\ pc' = "idle"
    /\ posted' = NoPosts /\ to_post' = <<>> /\ i' = 0
    /\ service' = "absent" /\ recent_titles' = {}
    /\ hosted_img' = "none" /\ body_html' = "none"
    /\ fetched' = {} /\ dups' = FALSE /\ faults' = {}
    /\ network' = FALSE /\ pubLog' = NoLog
    /\ exit' = "none" /\ killedAt' = "none" /\ authLog' = <<>>
    /\ file0' = file /\ preSave' = file
    /\ UNCHANGED <<durable, selVars>>

\* Between runs the access token of a valid credential expires.
Expire ==
    /\ pc = "idle"
    /\ tokenFile = "valid"
    /\ tokenFile' = "expired_rt"
    /\ UNCHANGED <<file, staleGrant, missing, tz, pc, runVars,
                   histVars, selVars>>

Next ==
    \/ StartRun \/ GetService \/ FetchRecent \/ LoopEnd \/ SkipSimilar
    \/ Prepare \/ Publish \/ SaveOpen \/ SaveDump \/ Kill \/ Exit \/ Expire

Spec == Init /\ [][Next]_vars

\* The same program started with any set of settings missing.
InitConfig == InitWith(SUBSET ConfigItems)

SpecConfig == InitConfig /\ [][Next]_vars

\* ------------------------------------------------------ select_top alone
InitSelectWith(listings) ==
    /\ file = FileAbsent /\ tokenFile = "absent" /\ staleGrant = FALSE
    /\ missing = {} /\ tz = 0 /\ cand_seen = {}
    /\ posted = NoPosts /\ to_post = <<>> /\ i = 0
    /\ service = "absent" /\ recent_titles \in listings
    /\ hosted_img = "none" /\ body_html = "none"
    /\ fetched = {} /\ dups = FALSE /\ faults = {}
    /\ network = FALSE /\ pubLog = NoLog
    /\ exit = "none" /\ killedAt = "none" /\ authLog = <<>>
    /\ file0 = file /\ preSave = file
    /\ pc = "select"
    /\ \E ls \in SUBSET (1..MaxSel) :
         cand \in {s \in SeqsUpTo(EntriesOver(ls), Cardinality(ls)) :
                     Len(s) = Cardinality(ls) /\ Range(LinksOf(s)) = ls}
    /\ cand_n \in 0..MaxSel
    /\ picked = <<>>

InitSelect == InitSelectWith({{}})

\* to_post = select_top(entries, n=MAX_POSTS), for any entries and n.
SelectTop ==
    /\ pc = "select"
    /\ picked' = select_top(cand, cand_n)
    /\ pc' = "selected"
    /\ UNCHANGED <<durable, runVars, histVars, cand, cand_n, cand_seen>>

NextSelect == SelectTop

SpecSelect == InitSelect /\ [][NextSelect]_vars

\* ------------------------------------------------------ fetch_feed_entries alone
\* The timestamps feed items carry: around the cutoff, and the present.
Stamps == ((Cutoff - MaxSkew - 1)..(Cutoff + MaxSkew)) \cup {Now}

AnyItems ==
    {Item(l, k, FALSE, TRUE, t) : l \in Links, k \in 0..MaxKw, t \in Stamps}
      \cup {Item(l, k, FALSE, FALSE, 0) : l \in Links, k \in 0..MaxKw}

InitFetch ==
    /\ file = FileAbsent /\ tokenFile = "absent" /\ staleGrant = FALSE
    /\ missing = {}
    /\ tz \in (-MaxSkew)..MaxSkew
    /\ NoRun
    /\ file0 = file /\ preSave = file
    /\ pc = "fetch"
    /\ cand \in SeqsUpTo(AnyItems, MaxFeed)
    /\ cand_n = 0
    /\ cand_seen \in SUBSET Links
    /\ picked = <<>>

\* entries = fetch_feed_entries(FEEDS, hours_back=FEED_HOURS_BACK,
\* seen_links=...), for any items and any seen_links.
FetchEntries ==
    /\ pc = "fetch"
    /\ picked' = fetch_feed_entries(cand, cand_seen, tz)
    /\ pc' = "fetched"
    /\ UNCHANGED <<durable, runVars, histVars, cand, cand_n, cand_seen>>

NextFetch == FetchEntries

SpecFetch == InitFetch /\ [][NextFetch]_vars

\* select_top followed by the similarity test of the loop: the selection
\* is made while the blog has any recent titles.
InitQuota == InitSelectWith(SUBSET (1..MaxSel))

SpecQuota == InitQuota /\ [][NextSelect]_vars

\* ====================================================== claims
Stored(f) == Keys(load_posted(f))
Published(l) == \E k \in DOMAIN pubLog[l] : pubLog[l][k] \in Success
Last(s) == s[Len(s)]

\* C1 (Idempotence): in any run, no publish call is made for a link that is
\* a key of the store as load_posted read it at the start of the run; and
\* a run whose feeds carry only links of that store makes no publish call
\* at all and leaves posted_deals.json as it was.
C1_Idempotence ==
    pc # "idle" =>
      /\ \A l \in Stored(file0) : pubLog[l] = <<>>
      /\ fetched \subseteq Stored(file0) =>
           (\A l \in Links : pubLog[l] = <<>>) /\ file = file0

\* C1 witness: a run has ended whose feeds carried links, all of them
\* already stored.
C1_Witness ==
    /\ pc = "done" /\ exit = "no_entries"
    /\ fetched # {} /\ fetched \subseteq Stored(file0)
    /\ file = file0

\* C2 as claimed: when a run has ended without being killed, every link
\* whose publish call returned in that run is a key of posted_deals.json,
\* whatever failed later in the run.
C2_PublishedIsStored ==
    (pc = "done" /\ exit # "killed") =>
      \A l \in Links : Published(l) => l \in Stored(file)

\* C3 (Commit atomicity on publish failure): a link whose publish call
\* raised in this run is, from then on in the run, neither a key of the
\* dict `posted` nor a key of posted_deals.json.
C3_FailedNotCommitted ==
    \A l \in Links :
      (pubLog[l] # <<>> /\ Last(pubLog[l]) \in Failure) =>
        posted[l] = "none" /\ l \notin Stored(file)

\* C3 witness: a run has completed in which the publish of one link raised
\* and a later candidate was published and committed.
C3_Witness ==
    /\ pc = "done" /\ exit = "completed" /\ Len(to_post) = 2
    /\ pubLog[to_post[1]] = <<"error">>
    /\ pubLog[to_post[2]] = <<"ok">>
    /\ to_post[2] \in Stored(file)
    /\ to_post[1] \notin Stored(file)

\* C4 as claimed: every record posted_deals.json held when a run started
\* is still there, unchanged, when the run has ended, however it ended.
C4_RecordsPermanent ==
    pc = "done" =>
      \A l \in Stored(file0) : load_posted(file)[l] = load_posted(file0)[l]

\* C5 as claimed: a candidate whose publish call was rejected for the
\* credential gets exactly one more publish call in the run.
C5_RetryOnceOnAuthFailure ==
    (pc = "done" /\ exit = "completed") =>
      \A l \in Links :
        (pubLog[l] # <<>> /\ pubLog[l][1] = "auth") => Len(pubLog[l]) = 2

\* C6 as claimed: once the refresh of the persisted credential has failed
\* (and TOKEN_FILE was not written since), no later token request attempts
\* the refresh again, whatever the authorization flow did in between.
C6_SelfHeal ==
    [][(staleGrant /\ pc = "auth") =>
         \A k \in DOMAIN authLog' :
            authLog'[k] \notin {"refresh_ok", "refresh_fail"}]_vars

\* ------------------------------------------------------ C7
\* Candidate a ranks before candidate b (indices of es): higher score, or
\* the same score and earlier in the list.
RanksBefore(es, a, b) ==
    \/ score_entry(es[a]) > score_entry(es[b])
    \/ score_entry(es[a]) = score_entry(es[b]) /\ a < b
RankOf(es, a) == 1 + Cardinality({b \in DOMAIN es : RanksBefore(es, b, a)})
ByRank(es) ==
    [k \in 1..Len(es) |-> es[CHOOSE a \in DOMAIN es : RankOf(es, a) = k]]
NumPositive(es) == Cardinality({a \in DOMAIN es : score_entry(es[a]) > 0})

\* C7 (Selector, stable ties): the result of select_top is a prefix of the
\* candidates ordered by descending score with equal scores in list order,
\* and when some candidate scores > 0 it is exactly the first maxCount
\* candidates of positive score of that ordering.
C7_StableTopN ==
    pc = "selected" =>
      /\ picked = Take(ByRank(cand), Len(picked))
      /\ NumPositive(cand) > 0 => Len(picked) = Min(cand_n, NumPositive(cand))

\* C7 witness: scores [0, 2, 2] and maxCount 2 give the second and third
\* candidate, in that order.
C7_Witness ==
    /\ pc = "selected" /\ Len(cand) = 3 /\ cand_n = 2
    /\ score_entry(cand[1]) = 0
    /\ score_entry(cand[2]) = 2 /\ score_entry(cand[3]) = 2
    /\ picked = <<cand[2], cand[3]>>

\* C8 as claimed: when the process was killed inside save_posted, the next
\* load_posted reads the store exactly as it was before save_posted began.
C8_CrashAtomicCommit ==
    (pc = "done" /\ exit = "killed" /\ killedAt \in {"save_open", "save_dump"}) =>
      load_posted(file) = load_posted(preSave)

\* C9 as claimed: every record, in the dict `posted` and in
\* posted_deals.json, carries the url of a post; a publish result without
\* url makes no record.
C9_RecordOnlyWithUrl ==
    \A l \in Links : posted[l] # "null" /\ load_posted(file)[l] # "null"

\* C10 as claimed: when the token request has failed, the console flow was
\* attempted after the local-server flow failed.
C10_ConsoleFallback ==
    (pc = "done" /\ exit = "auth_error") =>
      \E k \in DOMAIN authLog :
        authLog[k] \in {"console_ok", "console_fail"}

\* ------------------------------------------------------ C11
InLoop == {"loop", "publish", "save_open", "save_dump", "done"}
Suppressed(l) == \E r \in recent_titles : RatioPct(l, r) > SimThreshold

\* C11 (Similarity suppression): a selected candidate whose title has a
\* similarity ratio above 0.86 to some title of this run's recent-posts
\* listing gets no publish call and no record, in `posted` or on disk.
C11_SimilarNeverPublished ==
    pc \in InLoop =>
      \A l \in Range(to_post) :
        Suppressed(l) =>
          pubLog[l] = <<>> /\ posted[l] = "none" /\ l \notin Stored(file)

\* C11 witness: a completed run skipped a similar candidate and published
\* another one.
C11_Witness ==
    /\ pc = "done" /\ exit = "completed"
    /\ \E l \in Range(to_post) : Suppressed(l) /\ pubLog[l] = <<>>
    /\ \E l \in Range(to_post) : ~Suppressed(l) /\ Published(l)

\* ------------------------------------------------------ C12
\* C12 (Fallback selection): when every candidate scores 0, select_top
\* returns the first min(maxCount, number of candidates) candidates in list
\* order, so it is not empty when candidates exist and maxCount >= 1.
C12_FallbackSelection ==
    (pc = "selected" /\ NumPositive(cand) = 0) =>
      /\ picked = Take(cand, cand_n)
      /\ (cand # <<>> /\ cand_n >= 1) => picked # <<>>

\* C12 witness: three candidates of score 0 and maxCount 1 give the first.
C12_Witness ==
    /\ pc = "selected" /\ Len(cand) = 3 /\ cand_n = 1
    /\ NumPositive(cand) = 0
    /\ picked = <<cand[1]>>

\* ------------------------------------------------------ C13
\* C13 (VALID is a no-op): a token request made while TOKEN_FILE holds a
\* valid credential builds the service with it, calls neither refresh nor
\* the authorization flow, and does not write TOKEN_FILE.
C13_ValidTokenUntouched ==
    [][(pc = "auth" /\ tokenFile = "valid" /\ pc' = "recent") =>
         service' = "valid" /\ authLog' = <<>> /\ tokenFile' = tokenFile]_vars

\* C13 witness: a token request has returned on a valid persisted
\* credential without any call.
C13_Witness ==
    /\ pc = "recent" /\ service = "valid" /\ tokenFile = "valid"
    /\ authLog = <<>>

\* ------------------------------------------------------ C19
\* C19 as claimed: once get_blogger_service has returned, the service is
\* built on a valid credential and TOKEN_FILE holds a valid credential.
C19_ServiceAlwaysValid ==
    pc \in {"recent", "loop", "publish", "save_open", "save_dump"} =>
      service = "valid" /\ tokenFile = "valid"

Attempted(l) == pubLog[l] # <<>>

\* C14: failures of a feed, of the image upload, of the text generator and
\* of the recent-posts listing never end the run and never keep a
\* candidate from its publish call.  The entries of the feeds that parsed
\* are used; a candidate that is not suppressed goes from the loop head to
\* the publish call and nowhere else (short of the process being killed);
\* it is handed over with the original image url when the upload failed
\* and with the summary when the generator failed; a failed listing means
\* no title to compare with; and a run that completes has made a publish
\* call for every selected candidate that is not suppressed.
C14_DegradeGracefully ==
    /\ []((pc # "idle" /\ fetched \ Stored(file0) # {}) =>
            to_post # <<>> /\ exit \notin {"no_entries", "no_selection"})
    /\ [](pc = "publish" =>
            /\ "image" \in faults => hosted_img = "original"
            /\ "text" \in faults => body_html = "summary")
    /\ []((pc \in InLoop /\ "recent" \in faults) =>
            recent_titles = {} /\ \A l \in Range(to_post) : ~Suppressed(l))
    /\ []((pc = "done" /\ exit = "completed") =>
            \A l \in Range(to_post) : ~Suppressed(l) => Attempted(l))
    /\ [][(pc = "loop" /\ pc' # "loop" /\ i <= Len(to_post)
             /\ ~Suppressed(to_post[i])) =>
            pc' = "publish" \/ exit' = "killed"]_vars

\* C14 witness: a candidate is at its publish call in a run in which a
\* feed, the listing, the upload and the generator have all failed.
C14_Witness ==
    /\ pc = "publish"
    /\ faults = {"feed", "recent", "image", "text"}
    /\ hosted_img = "original" /\ body_html = "summary"

\* C17: a publish call that fails for a reason other than authorization
\* ends the work on that candidate only.  The failing step leaves
\* posted_deals.json and the dict as they were and returns to the loop,
\* and a run that completes has made a publish call for every later
\* candidate that is not suppressed.
C17_FailureIsLocal ==
    /\ [][(pc = "publish" /\ pubLog' # pubLog
             /\ Last(pubLog'[to_post[i]]) = "error") =>
            pc' = "loop" /\ file' = file /\ posted' = posted]_vars
    /\ []((pc = "done" /\ exit = "completed") =>
            \A k \in DOMAIN to_post :
              (Attempted(to_post[k]) /\ Last(pubLog[to_post[k]]) = "error") =>
                \A j \in (k + 1)..Len(to_post) :
                  ~Suppressed(to_post[j]) => Attempted(to_post[j]))

\* C17 witness: a completed run whose first candidate failed at publish
\* and whose second candidate had its publish call.
C17_Witness ==
    /\ pc = "done" /\ exit = "completed"
    /\ \E k \in DOMAIN to_post : \E j \in (k + 1)..Len(to_post) :
         pubLog[to_post[k]] = <<"error">> /\ Attempted(to_post[j])

PassFilter(es) ==
    IF NumPositive(es) = 0 THEN Range(es)
    ELSE {e \in Range(es) : score_entry(e) > 0}

\* C18 as claimed: with k entries that pass the score filter and are not
\* similar to a recent title, the candidates of the selection that reach
\* the publish call (those the loop does not skip) are min(n, k).
C18_SuppressedTakesNoSlot ==
    pc = "selected" =>
      Cardinality({l \in Range(LinksOf(picked)) : ~TooSimilar(l, recent_titles)})
        = Min(cand_n,
              Cardinality({e \in PassFilter(cand) :
                             ~TooSimilar(e.link, recent_titles)}))

\* C16 as claimed: with a required setting missing, the run ends with a
\* configuration error and makes no network call.
C16_FailFast ==
    (pc # "idle" /\ missing # {}) => (exit = "config_error" /\ ~network)

\* C15 as claimed: every entry fetch_feed_entries returns comes from a
\* feed item of its link that carries a time of its own, not older than
\* the cutoff, and that time is the entry's timestamp.
C15_DatedAndFresh ==
    pc = "fetched" =>
      \A e \in Range(picked) :
        \E it \in Range(cand) :
          /\ it.link = e.link /\ it.kw = e.kw
          /\ it.dated /\ it.ts >= Cutoff /\ e.published = it.ts

====
